---- MODULE Spec2Model ----
(***************************************************************************)
(* State-machine model of the workflow engine of the SMASH scrap auction  *)
(* demo (src/app.js, "DB operations", lines 16-234).                       *)
(*                                                                         *)
(* The document `db` is the object returned by loadDb and handed to every *)
(* operation; `storage` is the localStorage item written by saveDb.       *)
(* `approvals` is a history variable: the bid behind each ledger entry,   *)
(* in ledger order (the ledger entries of the program do not store a bid  *)
(* id).                                                                    *)
(*                                                                         *)
(* Every operation is an operator of the document and the call's           *)
(* arguments that yields the document afterwards and the object returned;  *)
(* the actions apply the operators to `db`.  A call that returns an error  *)
(* leaves every variable as it was.                                        *)
(*                                                                         *)
(* Fields that no operation of the engine ever reads back (password,      *)
(* display name, package name, sale unit, count, photos, the descriptive  *)
(* part fields, auction title / shipping / payment terms, ledger date)    *)
(* are left out of the records.                                           *)
(***************************************************************************)
EXTENDS Integers, Sequences, FiniteSets, TLC

VARIABLES db, storage, approvals, other

vars == <<db, storage, approvals, other>>

-----------------------------------------------------------------------------
(* Bounds of the model *)

\* the most entities (users, boxes, parts, auctions, bids, ledger entries)
\* the document holds; an operation that would create one more is not called
MaxEntities == 9

\* the entities the documents of two sessions hold between them, at most
MaxShared == 11

-----------------------------------------------------------------------------
(* JavaScript values: numbers (with NaN), strings and undefined *)

Undef == [t |-> "undef", n |-> 0, s |-> ""]
NaN == [t |-> "nan", n |-> 0, s |-> ""]
Num(n) == [t |-> "num", n |-> n, s |-> ""]
Str(s) == [t |-> "str", n |-> 0, s |-> s]

\* truthiness as used by `a || b` and `if (a)`
Truthy(x) ==
    CASE x.t = "num" -> x.n # 0
      [] x.t = "str" -> x.s # ""
      [] OTHER -> FALSE

\* a || b
Or(a, b) == IF Truthy(a) THEN a ELSE b

\* a - b taken as b - a
Minus_Swapped(a, b) ==
    IF a.t = "num" /\ b.t = "num" THEN Num(b.n - a.n) ELSE NaN

\* a - b on numbers; undefined makes the difference NaN
Minus(a, b) == IF a.t = "num" /\ b.t = "num" THEN Num(a.n - b.n) ELSE NaN

isNaN(x) == x.t # "num"

\* parseFloat on the values the model feeds it: a number parses to itself,
\* a string parses to its leading decimal number, NaN if it has none
parseFloat(x) ==
    CASE x.t = "num" -> x
      [] x.t = "str" /\ x.s = "10" -> Num(10)
      [] x.t = "str" /\ x.s = "50" -> Num(50)
      [] x.t = "str" /\ x.s = "10abc" -> Num(10)
      [] OTHER -> NaN

\* String.prototype.toLowerCase on the material names of the model
toLowerCase(s) ==
    CASE s = "Copper #1" -> "copper #1"
      [] s = "COPPER #1" -> "copper #1"
      [] s = "Copper #2" -> "copper #2"
      [] OTHER -> s

-----------------------------------------------------------------------------
(* Identifiers: makeId(prefix) is prefix + '-' + a random suffix.  An id is *)
(* the pair of prefix and suffix; the random draw is the parameter `n`.    *)

makeId(prefix, n) == <<prefix, n>>

\* the suffixes already used in a collection
Suffixes(coll) == {coll[i].id[2] : i \in DOMAIN coll}

\* the draws of Math.random the model follows: one fresh suffix per call
\* (draws are followed up to renaming, so the least unused one stands for all)
Draws(used) == {CHOOSE n \in 1..(Cardinality(used) + 1) : n \notin used}

\* the draws of Math.random when nothing keeps a suffix from coming up again:
\* makeId does not look at the collection, so a draw is a used suffix or a
\* fresh one
Repeats(used) == used \cup Draws(used)

NoId == <<"", 0>>

\* Array.prototype.find(x => x.id === id): index of the first match, 0 if none
FindIdx(coll, id) ==
    IF \E i \in DOMAIN coll : coll[i].id = id
    THEN CHOOSE i \in DOMAIN coll :
            coll[i].id = id /\ \A j \in 1..(i - 1) : coll[j].id # id
    ELSE 0

\* all parts of all boxes, for the part-id namespace
RECURSIVE AllParts(_)
AllParts(boxes) ==
    IF boxes = <<>> THEN <<>> ELSE Head(boxes).parts \o AllParts(Tail(boxes))

\* the number of entities in the document
Size(d) ==
    Len(d.users) + Len(d.boxes) + Len(AllParts(d.boxes)) + Len(d.auctions)
    + Len(d.bids) + Len(d.ledger)

-----------------------------------------------------------------------------
(* Persistence *)

EmptyDb == [users |-> <<>>, boxes |-> <<>>, auctions |-> <<>>,
            bids |-> <<>>, ledger |-> <<>>]

Null == [t |-> "null", n |-> 0, s |-> ""]

\* JSON.stringify(db): every value of the document survives except NaN,
\* which JSON writes as null
stringify(d) ==
    [d EXCEPT !.bids = [i \in DOMAIN d.bids |->
        [d.bids[i] EXCEPT !.lineOffers = [j \in DOMAIN d.bids[i].lineOffers |->
            [d.bids[i].lineOffers[j] EXCEPT !.amount =
                IF @.t = "nan" THEN Null ELSE @]]]]]

\* saveDb(db): the value localStorage holds afterwards
saveDb(d) == stringify(d)

\* localStorage without the item
NoItem == <<>>

\* loadDb(): the document JSON.parse gives for the item (localStorage is
\* modelled by the value its text parses to, null where NaN was written), a
\* fresh empty document when there is no item
loadDb(item) == IF item = NoItem THEN EmptyDb ELSE item

\* localStorage.setItem(STORAGE_KEY, value): the item afterwards, and whether
\* the call threw, which it does when the quota is exceeded (`full`)
setItem(item, value, full) ==
    [item |-> IF full THEN item ELSE value, threw |-> full]

\* what an operation leaves: the document afterwards, whether saveDb was
\* reached, and the returned error ("" on success) with the value that the
\* message interpolates kept apart in `detail`
Fail(d, error, detail) ==
    [db |-> d, saved |-> FALSE, error |-> error, detail |-> detail]

Done(d) == [db |-> d, saved |-> TRUE, error |-> "", detail |-> NoId]

-----------------------------------------------------------------------------
(* Bootstrap: db = loadDb() on an empty localStorage, then initDemo(db) *)

adminId == makeId("USR", 1)
managerId == makeId("USR", 2)
operatorId == makeId("USR", 3)

initDemo ==
    [EmptyDb EXCEPT !.users = <<
        [id |-> adminId, username |-> "admin", role |-> "admin",
         parentId |-> NoId, trustLevel |-> 5],
        [id |-> managerId, username |-> "manager", role |-> "seller",
         parentId |-> adminId, trustLevel |-> 3],
        [id |-> operatorId, username |-> "operator", role |-> "buyer",
         parentId |-> managerId, trustLevel |-> 0]>>]

Init ==
    /\ db = initDemo
    /\ storage = saveDb(initDemo)
    /\ approvals = <<>>
    /\ other = loadDb(storage)

-----------------------------------------------------------------------------
(* DB operations *)

\* createUser without the username check of line 69
createUser_NoDuplicateCheck(d, username, role, parentId, n) ==
    Done([d EXCEPT !.users = Append(@,
            [id |-> makeId("USR", n), username |-> username, role |-> role,
             parentId |-> parentId, trustLevel |-> 0])])

\* createUser(db, username, password, name, role, parentId)
createUser(d, username, role, parentId, n) ==
    LET id == makeId("USR", n)
    IN  IF \E i \in DOMAIN d.users : d.users[i].username = username
        THEN Fail(d, "Username already exists", NoId)
        ELSE Done([d EXCEPT !.users = Append(@,
                    [id |-> id, username |-> username, role |-> role,
                     parentId |-> parentId, trustLevel |-> 0])])

\* createBox(db, sellerId, data): data.material is "" when absent
createBox(d, sellerId, data, n) ==
    LET id == makeId("BOX", n)
        net == Or(data.net, Minus(data.gross, data.tare))
        box == [id |-> id,
                sellerId |-> sellerId,
                material |-> data.material,
                gross |-> Or(data.gross, Num(0)),
                tare |-> Or(data.tare, Num(0)),
                net |-> Or(net, Num(0)),
                status |-> "WIP",
                parts |-> <<>>]
    IN  Done([d EXCEPT !.boxes = Append(@, box)])

\* addPart without the material check of line 106
addPart_NoMaterialCheck(d, boxId, part, n) ==
    LET b == FindIdx(d.boxes, boxId)
        box == d.boxes[b]
        newPart == [id |-> makeId("PRT", n), name |-> part.name]
        material == IF box.material = "" /\ part.name # ""
                    THEN part.name ELSE box.material
    IN  IF b = 0
        THEN Fail(d, "Box not found", NoId)
        ELSE IF box.status # "WIP" /\ box.status # "FINISHED"
        THEN Fail(d, "Cannot modify box in auction or sold", NoId)
        ELSE Done([d EXCEPT !.boxes[b] =
                    [@ EXCEPT !.material = material,
                              !.parts = Append(@, newPart)]])

\* addPart checking the material only on a box that already holds a part
addPart_ChecksFilledBoxOnly(d, boxId, part, n) ==
    LET b == FindIdx(d.boxes, boxId)
        box == d.boxes[b]
        newPart == [id |-> makeId("PRT", n), name |-> part.name]
        material == IF box.material = "" /\ part.name # ""
                    THEN part.name ELSE box.material
    IN  IF b = 0
        THEN Fail(d, "Box not found", NoId)
        ELSE IF box.status # "WIP" /\ box.status # "FINISHED"
        THEN Fail(d, "Cannot modify box in auction or sold", NoId)
        ELSE IF /\ box.parts # <<>>
                /\ box.material # ""
                /\ part.name # ""
                /\ toLowerCase(part.name) # toLowerCase(box.material)
        THEN Fail(d, "Box is locked to material", box.material)
        ELSE Done([d EXCEPT !.boxes[b] =
                    [@ EXCEPT !.material = material,
                              !.parts = Append(@, newPart)]])

\* addPart without the status check of line 105
addPart_NoStatusCheck(d, boxId, part, n) ==
    LET b == FindIdx(d.boxes, boxId)
        box == d.boxes[b]
        newPart == [id |-> makeId("PRT", n), name |-> part.name]
        material == IF box.material = "" /\ part.name # ""
                    THEN part.name ELSE box.material
    IN  IF b = 0
        THEN Fail(d, "Box not found", NoId)
        ELSE IF /\ box.material # ""
                /\ part.name # ""
                /\ toLowerCase(part.name) # toLowerCase(box.material)
        THEN Fail(d, "Box is locked to material", box.material)
        ELSE Done([d EXCEPT !.boxes[b] =
                    [@ EXCEPT !.material = material,
                              !.parts = Append(@, newPart)]])

\* addPart taking the material from every named part it accepts
addPart_RelabelsMaterial(d, boxId, part, n) ==
    LET b == FindIdx(d.boxes, boxId)
        box == d.boxes[b]
        newPart == [id |-> makeId("PRT", n), name |-> part.name]
        material == IF part.name # "" THEN part.name ELSE box.material
    IN  IF b = 0
        THEN Fail(d, "Box not found", NoId)
        ELSE IF box.status # "WIP" /\ box.status # "FINISHED"
        THEN Fail(d, "Cannot modify box in auction or sold", NoId)
        ELSE IF /\ box.material # ""
                /\ part.name # ""
                /\ toLowerCase(part.name) # toLowerCase(box.material)
        THEN Fail(d, "Box is locked to material", box.material)
        ELSE Done([d EXCEPT !.boxes[b] =
                    [@ EXCEPT !.material = material,
                              !.parts = Append(@, newPart)]])

\* addPart(db, boxId, part): part.name is "" when absent
addPart(d, boxId, part, n) ==
    LET b == FindIdx(d.boxes, boxId)
        box == d.boxes[b]
        id == makeId("PRT", n)
        newPart == [id |-> id, name |-> part.name]
        material == IF box.material = "" /\ part.name # ""
                    THEN part.name ELSE box.material
    IN  IF b = 0
        THEN Fail(d, "Box not found", NoId)
        ELSE IF box.status # "WIP" /\ box.status # "FINISHED"
        THEN Fail(d, "Cannot modify box in auction or sold", NoId)
        ELSE IF /\ box.material # ""
                /\ part.name # ""
                /\ toLowerCase(part.name) # toLowerCase(box.material)
        THEN Fail(d, "Box is locked to material", box.material)
        ELSE Done([d EXCEPT !.boxes[b] =
                    [@ EXCEPT !.material = material,
                              !.parts = Append(@, newPart)]])

\* finalizeBox without the status check of line 134
finalizeBox_NoStatusCheck(d, boxId) ==
    LET b == FindIdx(d.boxes, boxId)
        box == d.boxes[b]
    IN  IF b = 0
        THEN Fail(d, "Box not found", NoId)
        ELSE IF Len(box.parts) = 0
        THEN Fail(d, "Add at least one part before finalising", NoId)
        ELSE Done([d EXCEPT !.boxes[b].status = "FINISHED"])

\* finalizeBox without the parts check of line 133
finalizeBox_NoPartsCheck(d, boxId) ==
    LET b == FindIdx(d.boxes, boxId)
        box == d.boxes[b]
    IN  IF b = 0
        THEN Fail(d, "Box not found", NoId)
        ELSE IF box.status # "WIP"
        THEN Fail(d, "Box already finalised or in auction", NoId)
        ELSE Done([d EXCEPT !.boxes[b].status = "FINISHED"])

\* finalizeBox(db, boxId)
finalizeBox(d, boxId) ==
    LET b == FindIdx(d.boxes, boxId)
        box == d.boxes[b]
    IN  IF b = 0
        THEN Fail(d, "Box not found", NoId)
        ELSE IF Len(box.parts) = 0
        THEN Fail(d, "Add at least one part before finalising", NoId)
        ELSE IF box.status # "WIP"
        THEN Fail(d, "Box already finalised or in auction", NoId)
        ELSE Done([d EXCEPT !.boxes[b].status = "FINISHED"])

\* setBoxStatus that finds the box and forgets the assignment
setBoxStatus_Forgets(boxes, boxId, status) == boxes

\* setBoxStatus(db, boxId, status): the boxes afterwards
setBoxStatus(boxes, boxId, status) ==
    LET b == FindIdx(boxes, boxId)
    IN  IF b # 0 THEN [boxes EXCEPT ![b].status = status] ELSE boxes

\* the loop stopping after the first box id
forEachSetBoxStatus_FirstOnly(boxes, boxIds, status) ==
    IF boxIds = <<>> THEN boxes
    ELSE setBoxStatus(boxes, Head(boxIds), status)

\* boxIds.forEach(bx => setBoxStatus(db, bx, status))
RECURSIVE forEachSetBoxStatus(_, _, _)
forEachSetBoxStatus(boxes, boxIds, status) ==
    IF boxIds = <<>> THEN boxes
    ELSE forEachSetBoxStatus(setBoxStatus(boxes, Head(boxIds), status),
                             Tail(boxIds), status)

\* the validation loop looking at the first id only
FirstInvalid_HeadOnly(boxes, boxIds) ==
    IF /\ boxIds # <<>>
       /\ \/ FindIdx(boxes, boxIds[1]) = 0
          \/ boxes[FindIdx(boxes, boxIds[1])].status # "FINISHED"
    THEN 1 ELSE 0

\* the validation loop letting a box that is already IN_AUCTION through
FirstInvalid_AllowsListed(boxes, boxIds) ==
    LET bad == {i \in DOMAIN boxIds :
                   \/ FindIdx(boxes, boxIds[i]) = 0
                   \/ boxes[FindIdx(boxes, boxIds[i])].status
                         \notin {"FINISHED", "IN_AUCTION"}}
    IN  IF bad = {} THEN 0 ELSE CHOOSE i \in bad : \A j \in bad : i <= j

\* the validation loop of createAuction: the position in boxIds of the first
\* id that names no box or a box that is not FINISHED, 0 if there is none
FirstInvalid(boxes, boxIds) ==
    LET bad == {i \in DOMAIN boxIds :
                   \/ FindIdx(boxes, boxIds[i]) = 0
                   \/ boxes[FindIdx(boxes, boxIds[i])].status # "FINISHED"}
    IN  IF bad = {} THEN 0 ELSE CHOOSE i \in bad : \A j \in bad : i <= j

\* createAuction adding the boxes to the seller's open auction when there is
\* one, instead of creating a second auction
createAuction_ExtendsOpenAuction(d, sellerId, data, n) ==
    LET k == FirstInvalid(d.boxes, data.boxIds)
        auction == [id |-> makeId("AUC", n),
                    sellerId |-> sellerId,
                    boxIds |-> data.boxIds,
                    status |-> "IN_AUCTION",
                    bids |-> <<>>]
        open == {i \in DOMAIN d.auctions :
                    /\ d.auctions[i].sellerId = sellerId
                    /\ d.auctions[i].status = "IN_AUCTION"}
        first == CHOOSE i \in open : \A j \in open : i <= j
    IN  IF k # 0 /\ FindIdx(d.boxes, data.boxIds[k]) = 0
        THEN Fail(d, "Box not found", data.boxIds[k])
        ELSE IF k # 0
        THEN Fail(d, "Box not ready for auction", data.boxIds[k])
        ELSE IF open # {}
        THEN Done([d EXCEPT !.auctions[first].boxIds = @ \o data.boxIds,
                            !.boxes = forEachSetBoxStatus(@, data.boxIds,
                                                          "IN_AUCTION")])
        ELSE Done([d EXCEPT !.auctions = Append(@, auction),
                            !.boxes = forEachSetBoxStatus(@, auction.boxIds,
                                                          "IN_AUCTION")])

\* createAuction(db, sellerId, data)
createAuction(d, sellerId, data, n) ==
    LET k == FirstInvalid(d.boxes, data.boxIds)
        id == makeId("AUC", n)
        auction == [id |-> id,
                    sellerId |-> sellerId,
                    boxIds |-> data.boxIds,
                    status |-> "IN_AUCTION",
                    bids |-> <<>>]
    IN  IF k # 0 /\ FindIdx(d.boxes, data.boxIds[k]) = 0
        THEN Fail(d, "Box not found", data.boxIds[k])
        ELSE IF k # 0
        THEN Fail(d, "Box not ready for auction", data.boxIds[k])
        ELSE Done([d EXCEPT !.auctions = Append(@, auction),
                            !.boxes = forEachSetBoxStatus(@, auction.boxIds,
                                                          "IN_AUCTION")])

\* lineOffers.reduce((sum, o) => sum + (isNaN(o.amount) ? 0 : o.amount), 0)
RECURSIVE reduceSum(_)
reduceSum(lineOffers) ==
    IF lineOffers = <<>> THEN 0
    ELSE LET o == lineOffers[Len(lineOffers)]
         IN  reduceSum(SubSeq(lineOffers, 1, Len(lineOffers) - 1))
             + (IF isNaN(o.amount) THEN 0 ELSE o.amount.n)

\* submitBid pushing the bid before the total is checked
submitBid_PushesFirst(d, buyerId, auctionId, offers, n) ==
    LET a == FindIdx(d.auctions, auctionId)
        lineOffers == [i \in DOMAIN offers |->
                          [partId |-> offers[i][1],
                           amount |-> parseFloat(Or(offers[i][2], Num(0)))]]
        total == reduceSum(lineOffers)
        bid == [id |-> makeId("BID", n),
                auctionId |-> auctionId,
                buyerId |-> buyerId,
                lineOffers |-> lineOffers,
                total |-> total,
                status |-> "SUBMITTED",
                sellerApproved |-> FALSE,
                adminApproved |-> FALSE]
        pushed == [d EXCEPT !.bids = Append(@, bid),
                            !.auctions[a].bids = Append(@, bid.id)]
    IN  IF a = 0
        THEN Fail(d, "Auction not found", NoId)
        ELSE IF total <= 0
        THEN Fail(pushed, "Enter at least one offer amount", NoId)
        ELSE Done(pushed)

\* submitBid refusing negative totals only
submitBid_AcceptsZeroTotal(d, buyerId, auctionId, offers, n) ==
    LET a == FindIdx(d.auctions, auctionId)
        lineOffers == [i \in DOMAIN offers |->
                          [partId |-> offers[i][1],
                           amount |-> parseFloat(Or(offers[i][2], Num(0)))]]
        total == reduceSum(lineOffers)
        bid == [id |-> makeId("BID", n),
                auctionId |-> auctionId,
                buyerId |-> buyerId,
                lineOffers |-> lineOffers,
                total |-> total,
                status |-> "SUBMITTED",
                sellerApproved |-> FALSE,
                adminApproved |-> FALSE]
    IN  IF a = 0
        THEN Fail(d, "Auction not found", NoId)
        ELSE IF total < 0
        THEN Fail(d, "Enter at least one offer amount", NoId)
        ELSE Done([d EXCEPT !.bids = Append(@, bid),
                            !.auctions[a].bids = Append(@, bid.id)])

\* submitBid pushing the bid's id to the bid list of every auction
submitBid_ListsEverywhere(d, buyerId, auctionId, offers, n) ==
    LET a == FindIdx(d.auctions, auctionId)
        lineOffers == [i \in DOMAIN offers |->
                          [partId |-> offers[i][1],
                           amount |-> parseFloat(Or(offers[i][2], Num(0)))]]
        total == reduceSum(lineOffers)
        bid == [id |-> makeId("BID", n),
                auctionId |-> auctionId,
                buyerId |-> buyerId,
                lineOffers |-> lineOffers,
                total |-> total,
                status |-> "SUBMITTED",
                sellerApproved |-> FALSE,
                adminApproved |-> FALSE]
    IN  IF a = 0
        THEN Fail(d, "Auction not found", NoId)
        ELSE IF total <= 0
        THEN Fail(d, "Enter at least one offer amount", NoId)
        ELSE Done([d EXCEPT !.bids = Append(@, bid),
                            !.auctions = [i \in DOMAIN @ |->
                                [@[i] EXCEPT !.bids = Append(@, bid.id)]]])

\* submitBid without the auction check of line 178
submitBid_NoAuctionCheck(d, buyerId, auctionId, offers, n) ==
    LET a == FindIdx(d.auctions, auctionId)
        lineOffers == [i \in DOMAIN offers |->
                          [partId |-> offers[i][1],
                           amount |-> parseFloat(Or(offers[i][2], Num(0)))]]
        total == reduceSum(lineOffers)
        bid == [id |-> makeId("BID", n),
                auctionId |-> auctionId,
                buyerId |-> buyerId,
                lineOffers |-> lineOffers,
                total |-> total,
                status |-> "SUBMITTED",
                sellerApproved |-> FALSE,
                adminApproved |-> FALSE]
    IN  IF total <= 0
        THEN Fail(d, "Enter at least one offer amount", NoId)
        ELSE IF a = 0
        THEN Done([d EXCEPT !.bids = Append(@, bid)])
        ELSE Done([d EXCEPT !.bids = Append(@, bid),
                            !.auctions[a].bids = Append(@, bid.id)])

\* submitBid(db, buyerId, auctionId, offers): offers is the object's entries
\* in key order, each <<part id, value>>
submitBid(d, buyerId, auctionId, offers, n) ==
    LET a == FindIdx(d.auctions, auctionId)
        lineOffers == [i \in DOMAIN offers |->
                          [partId |-> offers[i][1],
                           amount |-> parseFloat(Or(offers[i][2], Num(0)))]]
        total == reduceSum(lineOffers)
        id == makeId("BID", n)
        bid == [id |-> id,
                auctionId |-> auctionId,
                buyerId |-> buyerId,
                lineOffers |-> lineOffers,
                total |-> total,
                status |-> "SUBMITTED",
                sellerApproved |-> FALSE,
                adminApproved |-> FALSE]
    IN  IF a = 0
        THEN Fail(d, "Auction not found", NoId)
        ELSE IF total <= 0
        THEN Fail(d, "Enter at least one offer amount", NoId)
        ELSE Done([d EXCEPT !.bids = Append(@, bid),
                            !.auctions[a].bids = Append(@, bid.id)])

\* setBidSellerStatus taking the seller's approval back on a rejection
setBidSellerStatus_RejectResets(d, bidId, approve) ==
    LET b == FindIdx(d.bids, bidId)
    IN  IF b = 0
        THEN Fail(d, "Bid not found", NoId)
        ELSE IF approve
        THEN Done([d EXCEPT !.bids[b].status = "SELLER_ACCEPTED",
                            !.bids[b].sellerApproved = TRUE])
        ELSE Done([d EXCEPT !.bids[b].status = "SELLER_REJECTED",
                            !.bids[b].sellerApproved = FALSE])

\* setBidSellerStatus(db, bidId, approve)
setBidSellerStatus(d, bidId, approve) ==
    LET b == FindIdx(d.bids, bidId)
    IN  IF b = 0
        THEN Fail(d, "Bid not found", NoId)
        ELSE IF approve
        THEN Done([d EXCEPT !.bids[b].status = "SELLER_ACCEPTED",
                            !.bids[b].sellerApproved = TRUE])
        ELSE Done([d EXCEPT !.bids[b].status = "SELLER_REJECTED"])

\* setBidAdminStatus without the status check of line 217
setBidAdminStatus_NoPrecondition(d, bidId, approve, n) ==
    LET b == FindIdx(d.bids, bidId)
        bid == d.bids[b]
        a == FindIdx(d.auctions, bid.auctionId)
        auction == d.auctions[a]
        entry == [id |-> makeId("TX", n), sellerId |-> auction.sellerId,
                  buyerId |-> bid.buyerId, auctionId |-> auction.id,
                  total |-> bid.total]
    IN  IF b = 0
        THEN Fail(d, "Bid not found", NoId)
        ELSE IF a = 0
        THEN Fail(d, "Auction not found", NoId)
        ELSE IF approve
        THEN Done([d EXCEPT !.bids[b].status = "ADMIN_APPROVED",
                            !.bids[b].adminApproved = TRUE,
                            !.auctions[a].status = "SOLD",
                            !.boxes = forEachSetBoxStatus(@, auction.boxIds,
                                                          "SOLD"),
                            !.ledger = Append(@, entry)])
        ELSE Done([d EXCEPT !.bids[b].status = "ADMIN_REJECTED"])

\* setBidAdminStatus whose rejection puts the auction's boxes back to FINISHED
setBidAdminStatus_RejectReleasesBoxes(d, bidId, approve, n) ==
    LET b == FindIdx(d.bids, bidId)
        bid == d.bids[b]
        a == FindIdx(d.auctions, bid.auctionId)
        auction == d.auctions[a]
        entry == [id |-> makeId("TX", n), sellerId |-> auction.sellerId,
                  buyerId |-> bid.buyerId, auctionId |-> auction.id,
                  total |-> bid.total]
    IN  IF b = 0
        THEN Fail(d, "Bid not found", NoId)
        ELSE IF bid.status # "SELLER_ACCEPTED"
        THEN Fail(d, "Bid must be seller accepted first", NoId)
        ELSE IF a = 0
        THEN Fail(d, "Auction not found", NoId)
        ELSE IF approve
        THEN Done([d EXCEPT !.bids[b].status = "ADMIN_APPROVED",
                            !.bids[b].adminApproved = TRUE,
                            !.auctions[a].status = "SOLD",
                            !.boxes = forEachSetBoxStatus(@, auction.boxIds,
                                                          "SOLD"),
                            !.ledger = Append(@, entry)])
        ELSE Done([d EXCEPT !.bids[b].status = "ADMIN_REJECTED",
                            !.boxes = forEachSetBoxStatus(@, auction.boxIds,
                                                          "FINISHED")])

\* setBidAdminStatus whose approval rejects the other bids on the auction
setBidAdminStatus_RejectsSiblings(d, bidId, approve, n) ==
    LET b == FindIdx(d.bids, bidId)
        bid == d.bids[b]
        a == FindIdx(d.auctions, bid.auctionId)
        auction == d.auctions[a]
        entry == [id |-> makeId("TX", n), sellerId |-> auction.sellerId,
                  buyerId |-> bid.buyerId, auctionId |-> auction.id,
                  total |-> bid.total]
        settled == [j \in DOMAIN d.bids |->
                       IF j = b
                       THEN [bid EXCEPT !.status = "ADMIN_APPROVED",
                                        !.adminApproved = TRUE]
                       ELSE IF d.bids[j].auctionId = bid.auctionId
                       THEN [d.bids[j] EXCEPT !.status = "ADMIN_REJECTED"]
                       ELSE d.bids[j]]
    IN  IF b = 0
        THEN Fail(d, "Bid not found", NoId)
        ELSE IF bid.status # "SELLER_ACCEPTED"
        THEN Fail(d, "Bid must be seller accepted first", NoId)
        ELSE IF a = 0
        THEN Fail(d, "Auction not found", NoId)
        ELSE IF approve
        THEN Done([d EXCEPT !.bids = settled,
                            !.auctions[a].status = "SOLD",
                            !.boxes = forEachSetBoxStatus(@, auction.boxIds,
                                                          "SOLD"),
                            !.ledger = Append(@, entry)])
        ELSE Done([d EXCEPT !.bids[b].status = "ADMIN_REJECTED"])

\* setBidAdminStatus whose rejection puts the auction back to IN_AUCTION
setBidAdminStatus_RejectReopens(d, bidId, approve, n) ==
    LET b == FindIdx(d.bids, bidId)
        bid == d.bids[b]
        a == FindIdx(d.auctions, bid.auctionId)
        auction == d.auctions[a]
        entry == [id |-> makeId("TX", n), sellerId |-> auction.sellerId,
                  buyerId |-> bid.buyerId, auctionId |-> auction.id,
                  total |-> bid.total]
    IN  IF b = 0
        THEN Fail(d, "Bid not found", NoId)
        ELSE IF bid.status # "SELLER_ACCEPTED"
        THEN Fail(d, "Bid must be seller accepted first", NoId)
        ELSE IF a = 0
        THEN Fail(d, "Auction not found", NoId)
        ELSE IF approve
        THEN Done([d EXCEPT !.bids[b].status = "ADMIN_APPROVED",
                            !.bids[b].adminApproved = TRUE,
                            !.auctions[a].status = "SOLD",
                            !.boxes = forEachSetBoxStatus(@, auction.boxIds,
                                                          "SOLD"),
                            !.ledger = Append(@, entry)])
        ELSE Done([d EXCEPT !.bids[b].status = "ADMIN_REJECTED",
                            !.auctions[a].status = "IN_AUCTION"])

\* setBidAdminStatus writing the new ledger entry in front of the others
setBidAdminStatus_Prepends(d, bidId, approve, n) ==
    LET b == FindIdx(d.bids, bidId)
        bid == d.bids[b]
        a == FindIdx(d.auctions, bid.auctionId)
        auction == d.auctions[a]
        entry == [id |-> makeId("TX", n), sellerId |-> auction.sellerId,
                  buyerId |-> bid.buyerId, auctionId |-> auction.id,
                  total |-> bid.total]
    IN  IF b = 0
        THEN Fail(d, "Bid not found", NoId)
        ELSE IF bid.status # "SELLER_ACCEPTED"
        THEN Fail(d, "Bid must be seller accepted first", NoId)
        ELSE IF a = 0
        THEN Fail(d, "Auction not found", NoId)
        ELSE IF approve
        THEN Done([d EXCEPT !.bids[b].status = "ADMIN_APPROVED",
                            !.bids[b].adminApproved = TRUE,
                            !.auctions[a].status = "SOLD",
                            !.boxes = forEachSetBoxStatus(@, auction.boxIds,
                                                          "SOLD"),
                            !.ledger = <<entry>> \o @])
        ELSE Done([d EXCEPT !.bids[b].status = "ADMIN_REJECTED"])

\* setBidAdminStatus(db, bidId, approve)
setBidAdminStatus(d, bidId, approve, n) ==
    LET b == FindIdx(d.bids, bidId)
        bid == d.bids[b]
        a == FindIdx(d.auctions, bid.auctionId)
        auction == d.auctions[a]
        txId == makeId("TX", n)
        entry == [id |-> txId, sellerId |-> auction.sellerId,
                  buyerId |-> bid.buyerId, auctionId |-> auction.id,
                  total |-> bid.total]
    IN  IF b = 0
        THEN Fail(d, "Bid not found", NoId)
        ELSE IF bid.status # "SELLER_ACCEPTED"
        THEN Fail(d, "Bid must be seller accepted first", NoId)
        ELSE IF a = 0
        THEN Fail(d, "Auction not found", NoId)
        ELSE IF approve
        THEN Done([d EXCEPT !.bids[b].status = "ADMIN_APPROVED",
                            !.bids[b].adminApproved = TRUE,
                            !.auctions[a].status = "SOLD",
                            !.boxes = forEachSetBoxStatus(@, auction.boxIds,
                                                          "SOLD"),
                            !.ledger = Append(@, entry)])
        ELSE Done([d EXCEPT !.bids[b].status = "ADMIN_REJECTED"])

-----------------------------------------------------------------------------
(* The calls *)

\* a call on db that left r: the document is the one the operation left and
\* localStorage is rewritten when saveDb was reached; calls that would grow
\* the document beyond MaxEntities are not made
Call(r) ==
    /\ Size(r.db) <= MaxEntities
    /\ db' = r.db
    /\ storage' = IF r.saved THEN saveDb(r.db) ELSE storage
    /\ other' = other

\* a call on db that left r while localStorage is full: an operation that
\* reaches saveDb has changed the document in memory by then, setItem throws
\* and localStorage keeps the item it had
CallFull(r) ==
    /\ Size(r.db) <= MaxEntities
    /\ r.saved
    /\ db' = r.db
    /\ storage' = setItem(storage, stringify(r.db), TRUE).item
    /\ other' = other

\* a save of the second session that keeps the persisted bids its document
\* lacks
CallOther_KeepsBids(r) ==
    /\ Size(r.db) + Size(db) <= MaxShared
    /\ other' = r.db
    /\ storage' = IF r.saved
                  THEN [saveDb(r.db) EXCEPT !.bids =
                           IF Len(storage.bids) > Len(@)
                           THEN storage.bids ELSE @]
                  ELSE storage
    /\ UNCHANGED <<db, approvals>>

\* a call of the second session on its document that left r: localStorage is
\* rewritten with that document when saveDb was reached; calls that would
\* grow the two documents beyond MaxShared are not made
CallOther(r) ==
    /\ Size(r.db) + Size(db) <= MaxShared
    /\ other' = r.db
    /\ storage' = IF r.saved THEN saveDb(r.db) ELSE storage
    /\ UNCHANGED <<db, approvals>>

\* the same call of the first session
CallFirst(r) ==
    /\ Size(r.db) + Size(other) <= MaxShared
    /\ Call(r)
    /\ UNCHANGED approvals

\* how a call that left r ends for its caller: saveDb does not catch what
\* setItem throws, so the exception leaves the operation in place of a result
Outcome(r, full) ==
    IF r.saved /\ setItem(storage, stringify(r.db), full).threw
    THEN "throws"
    ELSE IF r.error # "" THEN "error" ELSE "returns"

\* a box id, an auction id and a bid id that name nothing
ghostBox == makeId("BOX", 0)
ghostAuction == makeId("AUC", 0)
ghostBid == makeId("BID", 0)

Ids(coll) == {coll[i].id : i \in DOMAIN coll}

\* every list of at most 2 of the ids, repeats included
BoxIdLists(ids) ==
    {<<>>} \cup {<<x>> : x \in ids} \cup {<<x, y>> : x, y \in ids}

\* the offers objects over the given parts and values: none, one entry per
\* part and value, and 10 next to a non-number on another part when `mixed`
Offers(parts, values, mixed) ==
    {<<>>}
    \cup {<<<<p, v>>>> : p \in parts, v \in values}
    \cup (IF mixed
          THEN {<<<<pq[1], Num(10)>>, <<pq[2], Str("abc")>>>> :
                   pq \in {x \in parts \X parts : x[1] # x[2]}}
          ELSE {})

PartIds(d) == {AllParts(d.boxes)[i].id : i \in DOMAIN AllParts(d.boxes)}

BoxFields(m) ==
    [material |-> m, gross |-> Num(100), tare |-> Num(10), net |-> Undef]

\* the values the callers pass in the settlement workload: one seller, one
\* buyer, one material, two offer amounts
Settlement ==
    [usernames |-> {"admin", "scrapper"},
     roles |-> {"buyer"},
     sellers |-> {managerId},
     buyers |-> {operatorId},
     names |-> {"Copper #1"},
     boxData |-> {BoxFields("")},
     values |-> {Num(50), Num(10)},
     mixed |-> FALSE,
     repeats |-> FALSE]

\* the values the callers pass in the packing workload: boxes created with
\* and without a material, parts named in the other case, otherwise or not
\* at all; no box is listed
Packing ==
    [usernames |-> {"admin", "scrapper"},
     roles |-> {"buyer"},
     sellers |-> {managerId},
     buyers |-> {operatorId},
     names |-> {"", "COPPER #1", "Copper #2"},
     boxData |-> {BoxFields(""), BoxFields("Copper #1")},
     values |-> {Num(50)},
     mixed |-> FALSE,
     repeats |-> FALSE]

\* the id the first user made by createUser gets
scrapperId == makeId("USR", 4)

\* the values the callers pass in the accounts workload: the admin creates
\* sellers, under a new name, a taken one and a taken one in another case, and
\* the sellers pack and list boxes; nobody bids
Accounts ==
    [usernames |-> {"admin", "Admin", "scrapper"},
     roles |-> {"seller"},
     sellers |-> {managerId, scrapperId},
     buyers |-> {operatorId},
     names |-> {"Copper #1"},
     boxData |-> {BoxFields("")},
     values |-> {Num(50)},
     mixed |-> FALSE,
     repeats |-> FALSE]

\* the values the callers pass in the bidding workload: offers of a number,
\* of a non-number, and of both on two parts; no bid is accepted or approved
Bidding ==
    [usernames |-> {"admin", "scrapper"},
     roles |-> {"buyer"},
     sellers |-> {managerId},
     buyers |-> {operatorId},
     names |-> {"Copper #1"},
     boxData |-> {BoxFields("")},
     values |-> {Num(50), Str("abc")},
     mixed |-> TRUE,
     repeats |-> FALSE]

\* the data of a box whose net weight the caller supplies
Weighed(net) == [BoxFields("") EXCEPT !.net = net]

\* the values the callers pass in the weighing workload: boxes of gross 100
\* and tare 10 created without a net weight, with net 80 and with net 0
Weighing ==
    [usernames |-> {"admin", "scrapper"},
     roles |-> {"buyer"},
     sellers |-> {managerId},
     buyers |-> {operatorId},
     names |-> {"Copper #1"},
     boxData |-> {BoxFields(""), Weighed(Num(80)), Weighed(Num(0))},
     values |-> {Num(50)},
     mixed |-> FALSE,
     repeats |-> FALSE]

\* the values the callers pass in the identifiers workload: the settlement
\* workload with one offer amount, the draws of makeId free to repeat
Identifiers ==
    [Settlement EXCEPT !.values = {Num(50)}, !.repeats = TRUE]

\* the ids of the users of document d that have the given role
UserIds(d, role) ==
    {d.users[i].id : i \in {j \in DOMAIN d.users : d.users[j].role = role}}

\* the arguments a workload W can pass to each operation in document d
BoxArgs(d) == Ids(d.boxes) \cup {ghostBox}
AuctionArgs(d) == Ids(d.auctions) \cup {ghostAuction}
BidArgs(d) == Ids(d.bids) \cup {ghostBid}
OfferArgs(d, W) == Offers(PartIds(d), W.values, W.mixed)

\* the draws of Math.random a workload follows
DrawsOf(W, used) == IF W.repeats THEN Repeats(used) ELSE Draws(used)

UserCalls(W) ==
    \E u \in W.usernames, role \in W.roles, n \in DrawsOf(W, Suffixes(db.users)) :
        /\ Call(createUser(db, u, role, adminId, n))
        /\ UNCHANGED approvals

InventoryCalls(W) ==
    \/ \E s \in W.sellers \cap UserIds(db, "seller"), data \in W.boxData,
          n \in DrawsOf(W, Suffixes(db.boxes)) :
          /\ Call(createBox(db, s, data, n))
          /\ UNCHANGED approvals
    \/ \E b \in BoxArgs(db), nm \in W.names,
          n \in DrawsOf(W, Suffixes(AllParts(db.boxes))) :
          /\ Call(addPart(db, b, [name |-> nm], n))
          /\ UNCHANGED approvals
    \/ \E b \in BoxArgs(db) :
          /\ Call(finalizeBox(db, b))
          /\ UNCHANGED approvals

\* the inventory calls made while localStorage is full
FullInventoryCalls(W) ==
    \/ \E s \in W.sellers \cap UserIds(db, "seller"), data \in W.boxData,
          n \in DrawsOf(W, Suffixes(db.boxes)) :
          /\ CallFull(createBox(db, s, data, n))
          /\ UNCHANGED approvals
    \/ \E b \in BoxArgs(db), nm \in W.names,
          n \in DrawsOf(W, Suffixes(AllParts(db.boxes))) :
          /\ CallFull(addPart(db, b, [name |-> nm], n))
          /\ UNCHANGED approvals
    \/ \E b \in BoxArgs(db) :
          /\ CallFull(finalizeBox(db, b))
          /\ UNCHANGED approvals

ListingCalls(W) ==
    \E s \in W.sellers \cap UserIds(db, "seller"),
       l \in BoxIdLists(BoxArgs(db)),
       n \in DrawsOf(W, Suffixes(db.auctions)) :
        /\ Call(createAuction(db, s, [boxIds |-> l], n))
        /\ UNCHANGED approvals

BiddingCalls(W) ==
    \E u \in W.buyers \cap UserIds(db, "buyer"),
       a \in AuctionArgs(db), o \in OfferArgs(db, W),
       n \in DrawsOf(W, Suffixes(db.bids)) :
        /\ Call(submitBid(db, u, a, o, n))
        /\ UNCHANGED approvals

ApprovalCalls ==
    \/ \E b \in BidArgs(db), ap \in BOOLEAN :
          /\ Call(setBidSellerStatus(db, b, ap))
          /\ UNCHANGED approvals
    \/ \E b \in BidArgs(db), ap \in BOOLEAN,
          n \in Draws(Suffixes(db.ledger)) :
          LET r == setBidAdminStatus(db, b, ap, n)
          IN  /\ Call(r)
              /\ approvals' = IF Len(r.db.ledger) > Len(db.ledger)
                              THEN Append(approvals, b) ELSE approvals

Next ==
    \/ InventoryCalls(Settlement)
    \/ ListingCalls(Settlement)
    \/ BiddingCalls(Settlement)
    \/ ApprovalCalls

Spec == Init /\ [][Next]_vars

NextPacking == InventoryCalls(Packing)

SpecPacking == Init /\ [][NextPacking]_vars

NextAccounts ==
    \/ UserCalls(Accounts)
    \/ InventoryCalls(Accounts)
    \/ ListingCalls(Accounts)

SpecAccounts == Init /\ [][NextAccounts]_vars

NextBidding ==
    \/ InventoryCalls(Bidding)
    \/ ListingCalls(Bidding)
    \/ BiddingCalls(Bidding)

SpecBidding == Init /\ [][NextBidding]_vars

NextWeighing == InventoryCalls(Weighing)

SpecWeighing == Init /\ [][NextWeighing]_vars

NextQuota ==
    \/ InventoryCalls(Settlement)
    \/ FullInventoryCalls(Settlement)

SpecQuota == Init /\ [][NextQuota]_vars

\* the values the callers pass in the sessions workload: the settlement
\* workload with one offer amount
Sessions == [Settlement EXCEPT !.values = {Num(50)}]

\* the draw of a makeId in one session: a suffix that neither session's
\* document has in the collection
Fresh(mine, theirs) == Draws(Suffixes(mine) \cup Suffixes(theirs))

\* a call of the first session or of the second that left r
Commit(first, r) == IF first THEN CallFirst(r) ELSE CallOther(r)

\* the calls a session makes on its document d while the other session
\* holds the document o
SessionCalls(first, W) ==
    LET d == IF first THEN db ELSE other
        o == IF first THEN other ELSE db
    IN  \/ \E s \in W.sellers \cap UserIds(d, "seller"), data \in W.boxData,
              n \in Fresh(d.boxes, o.boxes) :
              Commit(first, createBox(d, s, data, n))
        \/ \E b \in BoxArgs(d), nm \in W.names,
              n \in Fresh(AllParts(d.boxes), AllParts(o.boxes)) :
              Commit(first, addPart(d, b, [name |-> nm], n))
        \/ \E b \in BoxArgs(d) :
              Commit(first, finalizeBox(d, b))
        \/ \E s \in W.sellers \cap UserIds(d, "seller"),
              l \in BoxIdLists(BoxArgs(d)),
              n \in Fresh(d.auctions, o.auctions) :
              Commit(first, createAuction(d, s, [boxIds |-> l], n))
        \/ \E u \in W.buyers \cap UserIds(d, "buyer"),
              a \in AuctionArgs(d), offers \in OfferArgs(d, W),
              n \in Fresh(d.bids, o.bids) :
              Commit(first, submitBid(d, u, a, offers, n))

\* the second session starts again: its document is the one loadDb reads,
\* and initDemo leaves a document that has users alone
Startup ==
    /\ Size(loadDb(storage)) + Size(db) <= MaxShared
    /\ other' = loadDb(storage)
    /\ UNCHANGED <<db, storage, approvals>>

NextSessions ==
    \/ SessionCalls(TRUE, Sessions)
    \/ SessionCalls(FALSE, Sessions)
    \/ Startup

SpecSessions == Init /\ [][NextSessions]_vars

NextIdentifiers ==
    \/ InventoryCalls(Identifiers)
    \/ ListingCalls(Identifiers)
    \/ BiddingCalls(Identifiers)

SpecIdentifiers == Init /\ [][NextIdentifiers]_vars

-----------------------------------------------------------------------------
(* Helpers of the properties *)

\* the one draw the next makeId of a collection takes
Draw(coll) == CHOOSE n \in Draws(Suffixes(coll)) : TRUE

\* the box or auction of document d with the given id
BoxOf(d, id) == d.boxes[FindIdx(d.boxes, id)]
AuctionOf(d, id) == d.auctions[FindIdx(d.auctions, id)]

Range(seq) == {seq[i] : i \in DOMAIN seq}

-----------------------------------------------------------------------------
(* C1: each bid gives rise to at most one ledger entry: no two ledger    *)
(* entries come from admin approval of the same bid.                     *)

C1_OneEntryPerBid ==
    \A i, j \in DOMAIN approvals : approvals[i] = approvals[j] => i = j

-----------------------------------------------------------------------------
(* C2: a bid's status changes only along SUBMITTED -> SELLER_ACCEPTED,   *)
(* SUBMITTED -> SELLER_REJECTED, SELLER_ACCEPTED -> ADMIN_APPROVED and   *)
(* SELLER_ACCEPTED -> ADMIN_REJECTED; a terminal status never changes.   *)

LifecycleSteps ==
    {<<"SUBMITTED", "SELLER_ACCEPTED">>, <<"SUBMITTED", "SELLER_REJECTED">>,
     <<"SELLER_ACCEPTED", "ADMIN_APPROVED">>,
     <<"SELLER_ACCEPTED", "ADMIN_REJECTED">>}

C2_LinearLifecycle ==
    [][\A i \in DOMAIN db.bids :
          db.bids[i].status # db'.bids[i].status
          => <<db.bids[i].status, db'.bids[i].status>> \in LifecycleSteps]_vars

-----------------------------------------------------------------------------
(* C3: setBidAdminStatus on an existing bid that is not SELLER_ACCEPTED   *)
(* returns the precondition error and leaves the document as it was; a   *)
(* second approval right after a successful one fails the same way and   *)
(* the ledger has grown by one entry only.                               *)

PreconditionFailed == "Bid must be seller accepted first"

C3_AdminNeedsSellerAccepted ==
    \A i \in DOMAIN db.bids, ap \in BOOLEAN :
        LET bid == db.bids[i]
            r == setBidAdminStatus(db, bid.id, ap, Draw(db.ledger))
            again == setBidAdminStatus(r.db, bid.id, TRUE, Draw(r.db.ledger))
        IN  /\ bid.status # "SELLER_ACCEPTED"
               => r.error = PreconditionFailed /\ r.db = db /\ ~r.saved
            /\ bid.status = "SELLER_ACCEPTED" /\ ap
               => /\ r.error = ""
                  /\ again.error = PreconditionFailed
                  /\ again.db = r.db
                  /\ Len(again.db.ledger) = Len(db.ledger) + 1

\* a bid has been approved, and approving it again is refused
C3_Witness ==
    \E i \in DOMAIN db.bids :
        /\ db.bids[i].status = "ADMIN_APPROVED"
        /\ Len(db.ledger) = 1
        /\ approvals = <<db.bids[i].id>>
        /\ setBidAdminStatus(db, db.bids[i].id, TRUE, Draw(db.ledger)).error
           = PreconditionFailed

-----------------------------------------------------------------------------
(* C4: approving a SELLER_ACCEPTED bid leaves the bid ADMIN_APPROVED with *)
(* the admin flag set, its auction SOLD, every box of the auction's list  *)
(* SOLD, and the ledger longer by one entry that carries the auction's    *)
(* seller, the bid's buyer, the bid's auction and the bid's total.        *)

C4_ApprovalSettles ==
    \A i \in DOMAIN db.bids :
        LET bid == db.bids[i]
            r == setBidAdminStatus(db, bid.id, TRUE, Draw(db.ledger))
            auction == AuctionOf(db, bid.auctionId)
            entry == r.db.ledger[Len(r.db.ledger)]
        IN  bid.status = "SELLER_ACCEPTED"
            => /\ r.error = ""
               /\ r.db.bids[i].status = "ADMIN_APPROVED"
               /\ r.db.bids[i].adminApproved
               /\ AuctionOf(r.db, bid.auctionId).status = "SOLD"
               /\ \A k \in DOMAIN auction.boxIds :
                     /\ FindIdx(r.db.boxes, auction.boxIds[k]) # 0
                     /\ BoxOf(r.db, auction.boxIds[k]).status = "SOLD"
               /\ Len(r.db.ledger) = Len(db.ledger) + 1
               /\ SubSeq(r.db.ledger, 1, Len(db.ledger)) = db.ledger
               /\ entry.sellerId = auction.sellerId
               /\ entry.buyerId = bid.buyerId
               /\ entry.auctionId = bid.auctionId
               /\ entry.total = bid.total

\* an approval has happened: bid, auction and box are settled
C4_Witness ==
    \E i \in DOMAIN db.bids :
        /\ db.bids[i].status = "ADMIN_APPROVED"
        /\ approvals = <<db.bids[i].id>>
        /\ AuctionOf(db, db.bids[i].auctionId).status = "SOLD"
        /\ AuctionOf(db, db.bids[i].auctionId).boxIds # <<>>
        /\ \A k \in DOMAIN AuctionOf(db, db.bids[i].auctionId).boxIds :
              BoxOf(db, AuctionOf(db, db.bids[i].auctionId).boxIds[k]).status
              = "SOLD"
        /\ db.ledger[1].total = db.bids[i].total

-----------------------------------------------------------------------------
(* C5: a box is created WIP, and every change of a box's status is one of *)
(* WIP -> FINISHED by finalizeBox, FINISHED -> IN_AUCTION by              *)
(* createAuction, IN_AUCTION -> SOLD by an approving setBidAdminStatus.   *)

ByFinalizeBox ==
    \E b \in BoxArgs(db) : db' = finalizeBox(db, b).db

ByCreateAuction ==
    \E s \in Settlement.sellers, l \in BoxIdLists(BoxArgs(db)) :
        db' = createAuction(db, s, [boxIds |-> l], Draw(db.auctions)).db

ByApproval ==
    \E b \in BidArgs(db) :
        db' = setBidAdminStatus(db, b, TRUE, Draw(db.ledger)).db

C5_BoxLifecycle ==
    [][/\ \A i \in DOMAIN db'.boxes \ DOMAIN db.boxes :
             db'.boxes[i].status = "WIP"
       /\ \A i \in DOMAIN db.boxes :
             LET from == db.boxes[i].status
                 to == db'.boxes[i].status
             IN  from # to
                 => \/ from = "WIP" /\ to = "FINISHED" /\ ByFinalizeBox
                    \/ from = "FINISHED" /\ to = "IN_AUCTION"
                       /\ ByCreateAuction
                    \/ from = "IN_AUCTION" /\ to = "SOLD" /\ ByApproval]_vars

\* a box has gone all the way to SOLD and another one has been created
C5_Witness ==
    /\ \E i \in DOMAIN db.boxes : db.boxes[i].status = "SOLD"
    /\ \E i \in DOMAIN db.boxes : db.boxes[i].status = "WIP"

-----------------------------------------------------------------------------
(* C6: createAuction with a list in which some id names no box or a box   *)
(* that is not FINISHED returns an error, creates no auction and changes  *)
(* no box.                                                                *)

Listable(d, boxId) ==
    \E i \in DOMAIN d.boxes :
        d.boxes[i].id = boxId /\ d.boxes[i].status = "FINISHED"

C6_CreateAuctionAllOrNothing ==
    \A s \in Settlement.sellers, l \in BoxIdLists(BoxArgs(db)) :
        LET r == createAuction(db, s, [boxIds |-> l], Draw(db.auctions))
        IN  (\E k \in DOMAIN l : ~Listable(db, l[k]))
            => /\ r.error \in {"Box not found", "Box not ready for auction"}
               /\ r.db = db
               /\ ~r.saved

\* a FINISHED box listed in front of one that is not FINISHED is refused
C6_Witness ==
    \E i, j \in DOMAIN db.boxes :
        /\ db.boxes[i].status = "FINISHED"
        /\ db.boxes[j].status = "WIP"
        /\ createAuction(db, managerId,
                         [boxIds |-> <<db.boxes[i].id, db.boxes[j].id>>],
                         Draw(db.auctions)).error
           = "Box not ready for auction"

-----------------------------------------------------------------------------
(* C7: createAuction over boxes that are all FINISHED appends one auction *)
(* that is IN_AUCTION, has no bids and lists the given ids in the given   *)
(* order; every listed box becomes IN_AUCTION and nothing else changes.   *)

C7_CreateAuctionLists ==
    \A s \in Settlement.sellers, l \in BoxIdLists(BoxArgs(db)) :
        LET r == createAuction(db, s, [boxIds |-> l], Draw(db.auctions))
            auction == r.db.auctions[Len(r.db.auctions)]
        IN  (\A k \in DOMAIN l : Listable(db, l[k]))
            => /\ r.error = ""
               /\ Len(r.db.auctions) = Len(db.auctions) + 1
               /\ SubSeq(r.db.auctions, 1, Len(db.auctions)) = db.auctions
               /\ auction.status = "IN_AUCTION"
               /\ auction.bids = <<>>
               /\ auction.boxIds = l
               /\ auction.sellerId = s
               /\ DOMAIN r.db.boxes = DOMAIN db.boxes
               /\ \A i \in DOMAIN db.boxes :
                     r.db.boxes[i] =
                        IF db.boxes[i].id \in Range(l)
                        THEN [db.boxes[i] EXCEPT !.status = "IN_AUCTION"]
                        ELSE db.boxes[i]
               /\ r.db.users = db.users
               /\ r.db.bids = db.bids
               /\ r.db.ledger = db.ledger

\* an auction over two boxes exists next to a box that was left out
C7_Witness ==
    \E a \in DOMAIN db.auctions :
        /\ Len(db.auctions[a].boxIds) = 2
        /\ db.auctions[a].boxIds[1] # db.auctions[a].boxIds[2]
        /\ db.auctions[a].status = "IN_AUCTION"
        /\ \A k \in 1..2 :
              BoxOf(db, db.auctions[a].boxIds[k]).status = "IN_AUCTION"
        /\ \E i \in DOMAIN db.boxes :
              db.boxes[i].id \notin Range(db.auctions[a].boxIds)

-----------------------------------------------------------------------------
(* C8: finalizeBox fails on a box without parts; on a WIP box with a part *)
(* it succeeds and makes the box FINISHED; on a box that is no longer WIP *)
(* it fails with the invalid-state error and changes nothing, and a box   *)
(* never becomes WIP again, so it succeeds once per box.                  *)

InvalidState == "Box already finalised or in auction"

C8_FinalizeOnce ==
    /\ [](\A i \in DOMAIN db.boxes :
            LET box == db.boxes[i]
                r == finalizeBox(db, box.id)
            IN  /\ Len(box.parts) = 0 => r.error # "" /\ r.db = db
                /\ Len(box.parts) > 0 /\ box.status = "WIP"
                   => /\ r.error = ""
                      /\ r.db = [db EXCEPT !.boxes[i].status = "FINISHED"]
                      /\ finalizeBox(r.db, box.id).error = InvalidState
                      /\ finalizeBox(r.db, box.id).db = r.db
                /\ box.status # "WIP"
                   => r.error = InvalidState /\ r.db = db /\ ~r.saved)
    /\ [][\A i \in DOMAIN db.boxes :
             db.boxes[i].status # "WIP" => db'.boxes[i].status # "WIP"]_vars

\* a box has been finalised and a second finalizeBox on it is refused
C8_Witness ==
    \E i \in DOMAIN db.boxes :
        /\ db.boxes[i].status = "FINISHED"
        /\ finalizeBox(db, db.boxes[i].id).error = InvalidState

-----------------------------------------------------------------------------
(* C9: on a box whose material is set, addPart with a name that differs   *)
(* from the material case-insensitively fails with the material-mismatch  *)
(* error and leaves the box as it was.                                    *)

MaterialMismatch == "Box is locked to material"

Differs(name, material) == toLowerCase(name) # toLowerCase(material)

\* as claimed: for every box with a material and every differing name
C9_MismatchRejected ==
    \A i \in DOMAIN db.boxes, nm \in Packing.names :
        LET box == db.boxes[i]
            r == addPart(db, box.id, [name |-> nm], Draw(AllParts(db.boxes)))
        IN  box.material # "" /\ Differs(nm, box.material)
            => r.error = MaterialMismatch /\ r.db.boxes[i] = box

\* as the code has it: for every differing name that is not empty; a part
\* without a name is added to the box whatever the material
C9_NamedMismatchRejected ==
    \A i \in DOMAIN db.boxes, nm \in Packing.names :
        LET box == db.boxes[i]
            r == addPart(db, box.id, [name |-> nm], Draw(AllParts(db.boxes)))
        IN  /\ box.material # "" /\ nm # "" /\ Differs(nm, box.material)
               /\ box.status \in {"WIP", "FINISHED"}
               => /\ r.error = MaterialMismatch
                  /\ r.detail = box.material
                  /\ r.db = db
                  /\ ~r.saved
            /\ box.material # "" /\ nm = ""
               /\ box.status \in {"WIP", "FINISHED"}
               => /\ r.error = ""
                  /\ r.db.boxes[i].parts
                     = Append(box.parts,
                              [id |-> makeId("PRT", Draw(AllParts(db.boxes))),
                               name |-> ""])

\* a box locked to Copper #1 holds a part and refuses a Copper #2 part
C9_Witness ==
    \E i \in DOMAIN db.boxes :
        /\ db.boxes[i].material = "Copper #1"
        /\ db.boxes[i].parts # <<>>
        /\ addPart(db, db.boxes[i].id, [name |-> "Copper #2"],
                   Draw(AllParts(db.boxes))).error = MaterialMismatch

-----------------------------------------------------------------------------
(* C10: in every box whose material is set, the name of every part        *)
(* matches the material case-insensitively.                               *)

\* as claimed: every part
C10_PartsMatchMaterial ==
    \A i \in DOMAIN db.boxes :
        db.boxes[i].material # ""
        => \A p \in DOMAIN db.boxes[i].parts :
              ~Differs(db.boxes[i].parts[p].name, db.boxes[i].material)

\* as the code has it: every part that has a name
C10_NamedPartsMatchMaterial ==
    \A i \in DOMAIN db.boxes :
        db.boxes[i].material # ""
        => \A p \in DOMAIN db.boxes[i].parts :
              db.boxes[i].parts[p].name # ""
              => ~Differs(db.boxes[i].parts[p].name, db.boxes[i].material)

\* a box created as Copper #1 holds a part named COPPER #1
C10_Witness ==
    \E i \in DOMAIN db.boxes :
        /\ db.boxes[i].material = "Copper #1"
        /\ \E p \in DOMAIN db.boxes[i].parts :
              db.boxes[i].parts[p].name = "COPPER #1"

-----------------------------------------------------------------------------
(* C11: every bid that submitBid creates is on an auction that is          *)
(* IN_AUCTION when the bid is submitted; no bid is created on a SOLD      *)
(* auction.                                                               *)

C11_BidsOnOpenAuctions ==
    [][\A i \in DOMAIN db'.bids \ DOMAIN db.bids :
          AuctionOf(db, db'.bids[i].auctionId).status = "IN_AUCTION"]_vars

-----------------------------------------------------------------------------
(* C12: every box listed in an auction belongs to the auction's seller:   *)
(* the box's sellerId equals the auction's sellerId.                      *)

C12_BoxesBelongToSeller ==
    \A a \in DOMAIN db.auctions :
        \A k \in DOMAIN db.auctions[a].boxIds :
            /\ FindIdx(db.boxes, db.auctions[a].boxIds[k]) # 0
            /\ BoxOf(db, db.auctions[a].boxIds[k]).sellerId
               = db.auctions[a].sellerId

-----------------------------------------------------------------------------
(* C13: every auction lists at least one box: createAuction never leaves  *)
(* an auction whose box list is empty.                                    *)

C13_AuctionsListBoxes ==
    \A a \in DOMAIN db.auctions : db.auctions[a].boxIds # <<>>

-----------------------------------------------------------------------------
(* C14: every call of createUser, addPart, finalizeBox, createAuction,    *)
(* submitBid, setBidSellerStatus or setBidAdminStatus that returns an     *)
(* error leaves the document exactly as it was and does not save.         *)

\* the result r of a call on db is a success or left db alone
Untouched(r) == r.error # "" => r.db = db /\ ~r.saved

\* the part names and offers tried: matching, differing and missing names;
\* no offer, zero, a number, a non-number
NamesTried == {"", "Copper #1", "Copper #2"}
OffersTried == Offers(PartIds(db), {Num(0), Num(50), Str("abc")}, TRUE)

C14_ErrorsLeaveDocument ==
    /\ \A u \in Settlement.usernames, role \in {"seller", "buyer", "admin"} :
          Untouched(createUser(db, u, role, adminId, Draw(db.users)))
    /\ \A b \in BoxArgs(db), nm \in NamesTried :
          Untouched(addPart(db, b, [name |-> nm], Draw(AllParts(db.boxes))))
    /\ \A b \in BoxArgs(db) : Untouched(finalizeBox(db, b))
    /\ \A s \in Settlement.sellers, l \in BoxIdLists(BoxArgs(db)) :
          Untouched(createAuction(db, s, [boxIds |-> l], Draw(db.auctions)))
    /\ \A u \in Settlement.buyers, a \in AuctionArgs(db), o \in OffersTried :
          Untouched(submitBid(db, u, a, o, Draw(db.bids)))
    /\ \A b \in BidArgs(db), ap \in BOOLEAN :
          /\ Untouched(setBidSellerStatus(db, b, ap))
          /\ Untouched(setBidAdminStatus(db, b, ap, Draw(db.ledger)))

\* a document on which the operations fail for their several causes: a
\* taken username, unknown ids, a box in auction, an empty box, an empty
\* bid, a bid the seller has not accepted
C14_Witness ==
    \E i, j \in DOMAIN db.boxes, a \in DOMAIN db.auctions,
       b \in DOMAIN db.bids :
        /\ createUser(db, "admin", "buyer", adminId, Draw(db.users)).error
           = "Username already exists"
        /\ addPart(db, ghostBox, [name |-> "Copper #1"],
                   Draw(AllParts(db.boxes))).error = "Box not found"
        /\ addPart(db, db.boxes[i].id, [name |-> "Copper #1"],
                   Draw(AllParts(db.boxes))).error
           = "Cannot modify box in auction or sold"
        /\ finalizeBox(db, db.boxes[j].id).error
           = "Add at least one part before finalising"
        /\ finalizeBox(db, db.boxes[i].id).error = InvalidState
        /\ createAuction(db, managerId, [boxIds |-> <<ghostBox>>],
                         Draw(db.auctions)).error = "Box not found"
        /\ createAuction(db, managerId, [boxIds |-> <<db.boxes[j].id>>],
                         Draw(db.auctions)).error = "Box not ready for auction"
        /\ submitBid(db, operatorId, ghostAuction, <<>>, Draw(db.bids)).error
           = "Auction not found"
        /\ submitBid(db, operatorId, db.auctions[a].id, <<>>,
                     Draw(db.bids)).error = "Enter at least one offer amount"
        /\ setBidSellerStatus(db, ghostBid, TRUE).error = "Bid not found"
        /\ setBidAdminStatus(db, db.bids[b].id, TRUE, Draw(db.ledger)).error
           = PreconditionFailed

-----------------------------------------------------------------------------
(* C15: setBidAdminStatus(bid, false) on a SELLER_ACCEPTED bid changes    *)
(* that bid's status to ADMIN_REJECTED and nothing else: the bid's        *)
(* adminApproved flag is not set, and the auctions, the boxes and the     *)
(* ledger stay as they were.                                              *)

-----------------------------------------------------------------------------
(* C16: setBidSellerStatus and setBidAdminStatus change the status and    *)
(* the approval flags of the bid they are called on and of no other bid:  *)
(* every other bid, the competing bids on the same auction included,      *)
(* stays as it was, also when the call approves the bid and sells the     *)
(* auction.                                                               *)

\* document e differs from d in no bid other than d.bids[i], and in
\* d.bids[i] at most in the status and the two flags
OnlyBid(d, e, i) ==
    /\ DOMAIN e.bids = DOMAIN d.bids
    /\ \A j \in DOMAIN d.bids : j # i => e.bids[j] = d.bids[j]
    /\ [e.bids[i] EXCEPT !.status = "", !.sellerApproved = FALSE,
                         !.adminApproved = FALSE]
       = [d.bids[i] EXCEPT !.status = "", !.sellerApproved = FALSE,
                           !.adminApproved = FALSE]

C16_OtherBidsUntouched ==
    \A i \in DOMAIN db.bids, ap \in BOOLEAN :
        /\ OnlyBid(db, setBidSellerStatus(db, db.bids[i].id, ap).db, i)
        /\ OnlyBid(db, setBidAdminStatus(db, db.bids[i].id, ap,
                                         Draw(db.ledger)).db, i)

\* one bid of an auction has been approved and the auction is SOLD while a
\* competing bid on the same auction is still SUBMITTED
C16_Witness ==
    \E i, j \in DOMAIN db.bids :
        /\ db.bids[i].auctionId = db.bids[j].auctionId
        /\ db.bids[i].status = "ADMIN_APPROVED"
        /\ db.bids[j].status = "SUBMITTED"
        /\ AuctionOf(db, db.bids[i].auctionId).status = "SOLD"
        /\ approvals = <<db.bids[i].id>>

-----------------------------------------------------------------------------
(* C17: a bid whose status is SELLER_REJECTED has its sellerApproved flag *)
(* false: setBidSellerStatus(bid, false) leaves the bid SELLER_REJECTED   *)
(* with the flag false.                                                   *)

C17_RejectedNotApproved ==
    \A i \in DOMAIN db.bids :
        db.bids[i].status = "SELLER_REJECTED" => ~db.bids[i].sellerApproved

-----------------------------------------------------------------------------
(* C18: an auction is created IN_AUCTION; the only change of an auction's *)
(* status is IN_AUCTION -> SOLD, made by an approving setBidAdminStatus   *)
(* on one of the auction's bids; a SOLD auction stays SOLD.               *)

\* the step is setBidAdminStatus(bid, true) on a bid of auction a
ByApprovalOn(a) ==
    \E b \in DOMAIN db.bids :
        /\ db.bids[b].auctionId = db.auctions[a].id
        /\ db.bids[b].id \in Range(db.auctions[a].bids)
        /\ db' = setBidAdminStatus(db, db.bids[b].id, TRUE,
                                   Draw(db.ledger)).db

C18_AuctionLifecycle ==
    [][/\ \A a \in DOMAIN db'.auctions \ DOMAIN db.auctions :
             db'.auctions[a].status = "IN_AUCTION"
       /\ \A a \in DOMAIN db.auctions :
             /\ a \in DOMAIN db'.auctions
             /\ db.auctions[a].status = "SOLD"
                => db'.auctions[a].status = "SOLD"
             /\ db.auctions[a].status # db'.auctions[a].status
                => /\ db.auctions[a].status = "IN_AUCTION"
                   /\ db'.auctions[a].status = "SOLD"
                   /\ ByApprovalOn(a)]_vars

\* one auction has been sold by an approval and another one is open
C18_Witness ==
    \E a, c \in DOMAIN db.auctions, b \in DOMAIN db.bids :
        /\ db.auctions[a].status = "SOLD"
        /\ db.bids[b].auctionId = db.auctions[a].id
        /\ db.bids[b].status = "ADMIN_APPROVED"
        /\ Len(db.ledger) = 1
        /\ db.auctions[c].status = "IN_AUCTION"

-----------------------------------------------------------------------------
(* C19: the box list of an auction is fixed when createAuction returns:   *)
(* no step adds an id to, removes an id from or reorders the boxIds of an *)
(* auction that exists.                                                   *)

C19_BoxListFixed ==
    [][\A a \in DOMAIN db.auctions :
          /\ a \in DOMAIN db'.auctions
          /\ db'.auctions[a].id = db.auctions[a].id
          /\ db'.auctions[a].boxIds = db.auctions[a].boxIds]_vars

\* an auction listing a box has since received two bids and been sold
C19_Witness ==
    \E a \in DOMAIN db.auctions :
        /\ db.auctions[a].boxIds # <<>>
        /\ Len(db.auctions[a].bids) = 2
        /\ db.auctions[a].status = "SOLD"

-----------------------------------------------------------------------------
(* C20: addPart on a box that is IN_AUCTION or SOLD fails with the        *)
(* invalid-box-state error and adds no part, so the parts of a box never  *)
(* change once it is in an auction; addPart on a FINISHED box with a name *)
(* that matches the material adds the part and leaves the box FINISHED.   *)

InvalidBoxState == "Cannot modify box in auction or sold"

C20_NoPartsOnceListed ==
    /\ [](\A i \in DOMAIN db.boxes, nm \in NamesTried \cup {"COPPER #1"} :
            LET box == db.boxes[i]
                n == Draw(AllParts(db.boxes))
                r == addPart(db, box.id, [name |-> nm], n)
            IN  /\ box.status \in {"IN_AUCTION", "SOLD"}
                   => r.error = InvalidBoxState /\ r.db = db /\ ~r.saved
                /\ box.status = "FINISHED" /\ nm # ""
                   /\ ~Differs(nm, box.material)
                   => /\ r.error = ""
                      /\ r.db.boxes[i].status = "FINISHED"
                      /\ r.db.boxes[i].parts
                         = Append(box.parts,
                                  [id |-> makeId("PRT", n), name |-> nm])
                      /\ r.db = [db EXCEPT !.boxes[i].parts =
                                               r.db.boxes[i].parts])
    /\ [][\A i \in DOMAIN db.boxes :
             db.boxes[i].status \in {"IN_AUCTION", "SOLD"}
             => db'.boxes[i].parts = db.boxes[i].parts]_vars

\* a FINISHED box holds a second part and still takes a matching one, next
\* to a box in auction that refuses it
C20_Witness ==
    \E i, j \in DOMAIN db.boxes :
        /\ db.boxes[i].status = "FINISHED"
        /\ Len(db.boxes[i].parts) = 2
        /\ addPart(db, db.boxes[i].id, [name |-> "Copper #1"],
                   Draw(AllParts(db.boxes))).error = ""
        /\ db.boxes[j].status = "IN_AUCTION"
        /\ addPart(db, db.boxes[j].id, [name |-> "Copper #1"],
                   Draw(AllParts(db.boxes))).error = InvalidBoxState

-----------------------------------------------------------------------------
(* C21: the material of a box is set at most once: on a box without a     *)
(* material a successful addPart with a non-empty name makes that name    *)
(* the material, and a material that is set is never changed by any       *)
(* operation.                                                             *)

C21_MaterialSetOnce ==
    /\ [](\A i \in DOMAIN db.boxes, nm \in NamesTried \cup {"COPPER #1"} :
            LET box == db.boxes[i]
                r == addPart(db, box.id, [name |-> nm],
                             Draw(AllParts(db.boxes)))
            IN  /\ box.material # ""
                   => r.db.boxes[i].material = box.material
                /\ box.material = "" /\ nm # "" /\ r.error = ""
                   => r.db.boxes[i].material = nm
                /\ box.material = "" /\ (nm = "" \/ r.error # "")
                   => r.db.boxes[i].material = "")
    /\ [][\A i \in DOMAIN db.boxes :
             db.boxes[i].material # ""
             => db'.boxes[i].material = db.boxes[i].material]_vars

\* a box has taken its material from its first part and has gone on to be
\* sold under it, next to a box that has no material yet
C21_Witness ==
    \E i, j \in DOMAIN db.boxes :
        /\ db.boxes[i].material = "Copper #1"
        /\ db.boxes[i].parts # <<>>
        /\ db.boxes[i].status = "SOLD"
        /\ db.boxes[j].material = ""
        /\ addPart(db, db.boxes[j].id, [name |-> "Copper #2"],
                   Draw(AllParts(db.boxes))).db.boxes[j].material
           = "Copper #2"

-----------------------------------------------------------------------------
(* C22: submitBid fails with the auction-not-found error on an unknown    *)
(* auction id; otherwise it makes one line offer per entry of offers,     *)
(* totals the amounts with every amount that is not a number counted as   *)
(* zero, fails with the empty-bid error exactly when the total is <= 0    *)
(* (no offers, only zeros), and a failure creates no bid.                 *)

EmptyBid == "Enter at least one offer amount"

\* what an offered value counts for in the total
Counted(v) ==
    CASE v = Num(50) -> 50
      [] v = Num(10) -> 10
      [] v = Num(0 - 5) -> 0 - 5
      [] v = Str("10abc") -> 10
      [] OTHER -> 0

\* the offers tried: none, one entry, two entries on two parts
ValuesTried == {Num(0), Num(10), Num(50), Num(0 - 5), Str("abc"),
                Str("10abc"), Undef}
EntriesTried ==
    {<<>>}
    \cup {<<<<p, v>>>> : p \in PartIds(db), v \in ValuesTried}
    \cup {<<<<pq[1], vw[1]>>, <<pq[2], vw[2]>>>> :
             pq \in {x \in PartIds(db) \X PartIds(db) : x[1] # x[2]},
             vw \in ValuesTried \X ValuesTried}

ExpectedTotal(o) ==
    IF Len(o) = 0 THEN 0
    ELSE IF Len(o) = 1 THEN Counted(o[1][2])
    ELSE Counted(o[1][2]) + Counted(o[2][2])

C22_SubmitBidTotals ==
    \A a \in AuctionArgs(db), o \in EntriesTried :
        LET r == submitBid(db, operatorId, a, o, Draw(db.bids))
            bid == r.db.bids[Len(r.db.bids)]
        IN  /\ a = ghostAuction
               => r.error = "Auction not found" /\ r.db = db
            /\ a # ghostAuction /\ ExpectedTotal(o) <= 0
               => r.error = EmptyBid /\ r.db = db /\ ~r.saved
            /\ a # ghostAuction /\ ExpectedTotal(o) > 0
               => /\ r.error = ""
                  /\ Len(r.db.bids) = Len(db.bids) + 1
                  /\ bid.total = ExpectedTotal(o)
                  /\ Len(bid.lineOffers) = Len(o)
                  /\ \A k \in DOMAIN o :
                        /\ bid.lineOffers[k].partId = o[k][1]
                        /\ isNaN(bid.lineOffers[k].amount)
                           <=> o[k][2] = Str("abc")

\* the bid of the spec's example has been made: 10 on one part and "abc" on
\* another give a SUBMITTED bid of total 10, and no offers give none
C22_Witness ==
    \E b \in DOMAIN db.bids :
        /\ Len(db.bids[b].lineOffers) = 2
        /\ db.bids[b].lineOffers[1].amount = Num(10)
        /\ db.bids[b].lineOffers[2].amount = NaN
        /\ db.bids[b].total = 10
        /\ submitBid(db, operatorId, db.bids[b].auctionId, <<>>,
                     Draw(db.bids)).error = EmptyBid

-----------------------------------------------------------------------------
(* C23: a successful submitBid adds exactly one bid, SUBMITTED and with   *)
(* both approval flags false, and appends its id to the bid list of the   *)
(* auction it is called on and of no other; every bid's id stands exactly *)
(* once in all the auctions' bid lists, in the list of the auction the    *)
(* bid names.                                                              *)

\* the places <<auction, position>> at which the auctions list a bid id
Listings(d, bidId) ==
    {x \in (DOMAIN d.auctions) \X (1..Len(d.bids)) :
        /\ x[2] \in DOMAIN d.auctions[x[1]].bids
        /\ d.auctions[x[1]].bids[x[2]] = bidId}

C23_BidListedOnce ==
    /\ \A a \in DOMAIN db.auctions, o \in OfferArgs(db, Bidding) :
          LET n == Draw(db.bids)
              r == submitBid(db, operatorId, db.auctions[a].id, o, n)
              bid == r.db.bids[Len(r.db.bids)]
          IN  r.error = ""
              => /\ Len(r.db.bids) = Len(db.bids) + 1
                 /\ SubSeq(r.db.bids, 1, Len(db.bids)) = db.bids
                 /\ bid.id = makeId("BID", n)
                 /\ bid.auctionId = db.auctions[a].id
                 /\ bid.buyerId = operatorId
                 /\ bid.status = "SUBMITTED"
                 /\ ~bid.sellerApproved
                 /\ ~bid.adminApproved
                 /\ r.db.auctions =
                       [db.auctions EXCEPT ![a].bids = Append(@, bid.id)]
                 /\ r.db.boxes = db.boxes
                 /\ r.db.users = db.users
                 /\ r.db.ledger = db.ledger
    /\ \A b \in DOMAIN db.bids :
          /\ Cardinality(Listings(db, db.bids[b].id)) = 1
          /\ \A x \in Listings(db, db.bids[b].id) :
                db.auctions[x[1]].id = db.bids[b].auctionId
    /\ \A a \in DOMAIN db.auctions :
          Len(db.auctions[a].bids) <= Len(db.bids)

\* two auctions have a bid each
C23_Witness ==
    \E a, c \in DOMAIN db.auctions :
        /\ a # c
        /\ Len(db.auctions[a].bids) = 1
        /\ Len(db.auctions[c].bids) = 1
        /\ db.auctions[a].bids # db.auctions[c].bids
        /\ Len(db.bids) = 2

-----------------------------------------------------------------------------
(* C24: the auction id of every bid names an auction of the document, so  *)
(* setBidAdminStatus on a bid of the document never returns the           *)
(* auction-not-found error.                                               *)

C24_BidsNameAuctions ==
    \A b \in DOMAIN db.bids :
        /\ FindIdx(db.auctions, db.bids[b].auctionId) # 0
        /\ \A ap \in BOOLEAN :
              setBidAdminStatus(db, db.bids[b].id, ap, Draw(db.ledger)).error
              # "Auction not found"

\* a bid is SELLER_ACCEPTED, so that setBidAdminStatus goes on to look its
\* auction up, and finds it
C24_Witness ==
    \E b \in DOMAIN db.bids :
        /\ db.bids[b].status = "SELLER_ACCEPTED"
        /\ AuctionOf(db, db.bids[b].auctionId).id = db.bids[b].auctionId
        /\ setBidAdminStatus(db, db.bids[b].id, FALSE, Draw(db.ledger)).error
           = ""

-----------------------------------------------------------------------------
(* C25: the ledger is append-only: in every step the ledger before is a   *)
(* prefix of the ledger after, and the only step that lengthens it is an  *)
(* approving setBidAdminStatus, by one entry.                             *)

C25_LedgerAppendOnly ==
    [][/\ Len(db'.ledger) >= Len(db.ledger)
       /\ SubSeq(db'.ledger, 1, Len(db.ledger)) = db.ledger
       /\ db'.ledger # db.ledger
          => /\ Len(db'.ledger) = Len(db.ledger) + 1
             /\ ByApproval]_vars

\* the ledger holds two entries, the first written before the second
C25_Witness ==
    /\ Len(db.ledger) = 2
    /\ db.ledger[1].id # db.ledger[2].id
    /\ Len(approvals) = 2

-----------------------------------------------------------------------------
(* C26: between operations the persisted document equals the document in *)
(* memory: an operation either makes all its changes and persists the     *)
(* whole document, or fails and changes neither.                          *)

C26_PersistedIsMemory == storage = db

-----------------------------------------------------------------------------
(* C27: a failure of the persistence write at the end of an operation is  *)
(* swallowed: the operation still returns its success result to the       *)
(* caller, whether or not the write went through.                         *)

C27_SaveFailureSwallowed ==
    \A full \in BOOLEAN :
        /\ \A data \in Settlement.boxData :
              Outcome(createBox(db, managerId, data, Draw(db.boxes)), full)
              = "returns"
        /\ \A b \in BoxArgs(db), nm \in Settlement.names :
              LET r == addPart(db, b, [name |-> nm],
                               Draw(AllParts(db.boxes)))
              IN  r.error = "" => Outcome(r, full) = "returns"
        /\ \A b \in BoxArgs(db) :
              LET r == finalizeBox(db, b)
              IN  r.error = "" => Outcome(r, full) = "returns"

-----------------------------------------------------------------------------
(* C28: the end-to-end scenario is accepted step by step: createBox with  *)
(* gross 100 and tare 10 gives a WIP box of net 90; addPart "Copper #1"   *)
(* makes that the box's material; finalizeBox gives FINISHED;             *)
(* createAuction over the box gives the box IN_AUCTION; submitBid of 50   *)
(* on the part gives a SUBMITTED bid of total 50; the seller's accept     *)
(* gives SELLER_ACCEPTED; the admin's approval gives the bid              *)
(* ADMIN_APPROVED, the auction SOLD, the box SOLD and a ledger of exactly *)
(* one entry of total 50.                                                 *)

\* the calls of the scenario, each on the document the one before left
Boxed == createBox(initDemo, managerId, BoxFields(""), 1)
theBox == Boxed.db.boxes[1]
Filled == addPart(Boxed.db, theBox.id, [name |-> "Copper #1"], 1)
thePart == Filled.db.boxes[1].parts[1]
Finished == finalizeBox(Filled.db, theBox.id)
Listed == createAuction(Finished.db, managerId, [boxIds |-> <<theBox.id>>], 1)
theAuction == Listed.db.auctions[1]
Offered ==
    submitBid(Listed.db, operatorId, theAuction.id, <<<<thePart.id, Num(50)>>>>,
              1)
theBid == Offered.db.bids[1]
Accepted == setBidSellerStatus(Offered.db, theBid.id, TRUE)
Approved == setBidAdminStatus(Accepted.db, theBid.id, TRUE, 1)

C28_Scenario ==
    /\ Boxed.error = ""
    /\ theBox.net = Num(90) /\ theBox.status = "WIP" /\ theBox.material = ""
    /\ Filled.error = ""
    /\ Filled.db.boxes[1].material = "Copper #1"
    /\ Len(Filled.db.boxes[1].parts) = 1
    /\ Finished.error = ""
    /\ Finished.db.boxes[1].status = "FINISHED"
    /\ Listed.error = ""
    /\ Listed.db.boxes[1].status = "IN_AUCTION"
    /\ theAuction.status = "IN_AUCTION" /\ theAuction.boxIds = <<theBox.id>>
    /\ Offered.error = ""
    /\ theBid.total = 50 /\ theBid.status = "SUBMITTED"
    /\ Accepted.error = ""
    /\ Accepted.db.bids[1].status = "SELLER_ACCEPTED"
    /\ Approved.error = ""
    /\ Approved.db.bids[1].status = "ADMIN_APPROVED"
    /\ Approved.db.auctions[1].status = "SOLD"
    /\ Approved.db.boxes[1].status = "SOLD"
    /\ Len(Approved.db.ledger) = 1
    /\ Approved.db.ledger[1].total = 50
    \* a behaviour that has followed the scenario is where the scenario ends
    /\ approvals = <<theBid.id>> /\ Len(db.boxes) = 1 /\ Len(db.bids) = 1
       /\ Len(db.auctions) = 1 /\ db.auctions[1].boxIds = <<theBox.id>>
       /\ Len(db.boxes[1].parts) = 1 /\ db.bids[1].total = 50
       /\ db.bids[1].status = "ADMIN_APPROVED"
       => db = Approved.db /\ storage = saveDb(Approved.db)

\* the behaviour has followed the scenario to its end
C28_Witness ==
    /\ db = Approved.db
    /\ storage = saveDb(Approved.db)
    /\ approvals = <<theBid.id>>

-----------------------------------------------------------------------------
(* C29: createUser fails with the duplicate-username error exactly when a *)
(* user of the same username, compared exactly and case-sensitively,      *)
(* exists, and otherwise appends one user of trust level 0; so usernames  *)
(* are pairwise distinct in every state, and no step deletes or changes a *)
(* user that exists.                                                      *)

DuplicateUsername == "Username already exists"

UsernamesTried == {"admin", "Admin", "manager", "operator", "scrapper", ""}

C29_UniqueUsernames ==
    /\ [](/\ \A u \in UsernamesTried, role \in {"seller", "buyer", "admin"} :
               LET n == Draw(db.users)
                   r == createUser(db, u, role, adminId, n)
                   taken == \E i \in DOMAIN db.users :
                               db.users[i].username = u
               IN  /\ taken => r.error = DuplicateUsername /\ r.db = db
                   /\ ~taken
                      => /\ r.error = ""
                         /\ r.db = [db EXCEPT !.users = Append(@,
                                       [id |-> makeId("USR", n),
                                        username |-> u, role |-> role,
                                        parentId |-> adminId,
                                        trustLevel |-> 0])]
          /\ \A i, j \in DOMAIN db.users :
               db.users[i].username = db.users[j].username => i = j)
    /\ [][\A i \in DOMAIN db.users :
             i \in DOMAIN db'.users /\ db'.users[i] = db.users[i]]_vars

\* next to the seeded admin there is a user Admin, and both names are taken
C29_Witness ==
    \E i \in DOMAIN db.users :
        /\ db.users[i].username = "Admin"
        /\ db.users[i].trustLevel = 0
        /\ db.users[1].username = "admin"
        /\ createUser(db, "Admin", "seller", adminId, Draw(db.users)).error
           = DuplicateUsername
        /\ createUser(db, "admin", "seller", adminId, Draw(db.users)).error
           = DuplicateUsername

-----------------------------------------------------------------------------
(* C30: createBox always succeeds; the box's net weight is the net value  *)
(* supplied whenever one is supplied, whatever it is, 0 included, and     *)
(* gross - tare only when none is supplied.                               *)

C30_NetAsSupplied ==
    \A data \in Weighing.boxData :
        LET r == createBox(db, managerId, data, Draw(db.boxes))
            box == r.db.boxes[Len(r.db.boxes)]
        IN  /\ r.error = ""
            /\ Len(r.db.boxes) = Len(db.boxes) + 1
            /\ box.net = IF data.net # Undef THEN data.net
                         ELSE Minus(data.gross, data.tare)

-----------------------------------------------------------------------------
(* C31 *)

\* the ids of a collection are pairwise distinct
UniqueIds(coll) ==
    \A i, j \in DOMAIN coll : coll[i].id = coll[j].id => i = j

\* C31: every created entity receives an id unique within its collection:
\* no two users, no two boxes, no two parts, no two auctions, no two bids and
\* no two ledger entries share an id, so a lookup by id resolves to the
\* entity that was created with it.  makeId draws the suffix at random and
\* does not look at the collection, so a draw that comes up again gives two
\* entities one id and find() resolves that id to the older one.
C31_UniqueIds ==
    /\ UniqueIds(db.users)
    /\ UniqueIds(db.boxes)
    /\ UniqueIds(AllParts(db.boxes))
    /\ UniqueIds(db.auctions)
    /\ UniqueIds(db.bids)
    /\ UniqueIds(db.ledger)
    /\ \A i \in DOMAIN db.boxes : FindIdx(db.boxes, db.boxes[i].id) = i

-----------------------------------------------------------------------------
(* C32 *)

\* the positions in db.auctions of the auctions that list the box id
ListedIn(d, id) ==
    {i \in DOMAIN d.auctions : id \in Range(d.auctions[i].boxIds)}

\* C32: box and auction statuses agree in every reachable state: every box
\* listed in an auction has the status of that auction (IN_AUCTION while the
\* auction is IN_AUCTION, SOLD once it is SOLD), every box that is IN_AUCTION
\* or SOLD is listed in exactly one auction, and no box is listed in two
\* different auctions (ids taken as fresh draws).
C32_StatusesAgree ==
    /\ \A i \in DOMAIN db.auctions :
          /\ db.auctions[i].status \in {"IN_AUCTION", "SOLD"}
          /\ \A id \in Range(db.auctions[i].boxIds) :
                /\ FindIdx(db.boxes, id) # 0
                /\ BoxOf(db, id).status = db.auctions[i].status
    /\ \A b \in DOMAIN db.boxes :
          /\ db.boxes[b].status \in {"IN_AUCTION", "SOLD"}
                => Cardinality(ListedIn(db, db.boxes[b].id)) = 1
          /\ Cardinality(ListedIn(db, db.boxes[b].id)) <= 1

\* a sold auction with its sold box next to an auction that is still open
C32_Witness ==
    \E i, j \in DOMAIN db.auctions :
        /\ db.auctions[i].status = "SOLD"
        /\ db.auctions[j].status = "IN_AUCTION"
        /\ \E id \in Range(db.auctions[i].boxIds) :
              BoxOf(db, id).status = "SOLD"

-----------------------------------------------------------------------------
(* C33 *)

\* the approval flags of every bid of document d agree with each other and
\* with the status ADMIN_APPROVED
FlagsAgree(d) ==
    \A i \in DOMAIN d.bids :
        /\ d.bids[i].adminApproved => d.bids[i].sellerApproved
        /\ d.bids[i].status = "ADMIN_APPROVED"
              => d.bids[i].sellerApproved /\ d.bids[i].adminApproved

\* a step keeps every bid in its place with the flags that were true
FlagsKept ==
    \A i \in DOMAIN db.bids :
        /\ i \in DOMAIN db'.bids
        /\ db'.bids[i].id = db.bids[i].id
        /\ db.bids[i].sellerApproved => db'.bids[i].sellerApproved
        /\ db.bids[i].adminApproved => db'.bids[i].adminApproved

\* C33: in every reachable state a bid whose admin-approved flag is true has
\* its seller-approved flag true, and a bid whose status is ADMIN_APPROVED
\* has both flags true; no step resets a flag that is true to false.
C33_FlagsMonotone == [](FlagsAgree(db)) /\ [][FlagsKept]_vars

\* a bid the seller rejected after both approvals: both flags are still true
C33_Witness ==
    \E i \in DOMAIN db.bids :
        /\ db.bids[i].status = "SELLER_REJECTED"
        /\ db.bids[i].sellerApproved
        /\ db.bids[i].adminApproved

-----------------------------------------------------------------------------
(* C34 *)

\* localStorage holds the whole document of one of the two sessions
WholeDocument == storage \in {stringify(db), stringify(other)}

\* a step that changes the document of a session leaves localStorage with
\* that document as a whole, whatever the other session had persisted, and
\* leaves the other session's document as it was
Overwrites ==
    /\ db' # db => storage' = stringify(db') /\ other' = other
    /\ other' # other => storage' = stringify(other') /\ db' = db

\* the bids of the first session's document, each persisted by the call that
\* created it, that localStorage no longer has
LostBids == Ids(db.bids) \ Ids(storage.bids)

\* C34: with two sessions that each loaded their own copy of the document
\* and each save the whole document after their operations, the saves race as
\* last-write-wins: localStorage always holds the whole document of the
\* session that saved last, so what one session persisted (a submitted bid)
\* is lost from localStorage when the other session, whose copy does not
\* contain it, saves afterwards.
C34_LastWriteWins == [](WholeDocument) /\ [][Overwrites]_vars

\* the first session submitted a bid and the second session, whose document
\* has neither the bid nor its auction, saved a box afterwards: localStorage
\* has that box and not the bid
C34_Witness ==
    /\ LostBids # {}
    /\ storage = stringify(other)
    /\ Ids(storage.boxes) \ Ids(db.boxes) # {}

====
